---- MODULE Spec2Model ----
(***************************************************************************)
(* Model of scripts/DataProcessor.py, the Transaction Store: the loading of *)
(* the CSV file, the two cached views and the six queries the dashboard     *)
(* calls.                                                                   *)
(*                                                                         *)
(* Money is counted in whole pence, so Revenue = Quantity * UnitPrice is   *)
(* exact.  A CSV text cell is a string ("" is the empty cell, which the    *)
(* reader turns into null); a numeric cell is a record saying whether its  *)
(* text parses as a number; InvoiceNo is a sequence of characters and a    *)
(* timestamp a sequence of tokens, so that starts_with, the regular        *)
(* expression "^C" and strptime are computed, not assumed.                 *)
(***************************************************************************)
EXTENDS Integers, Sequences, FiniteSets, TLC

VARIABLES
    status,          \* "new" before DataProcessor(filename), then "ready" or "failed"
    loadError,       \* the exception the constructor raised, "" if none
    file,            \* the CSV file the constructor was given
    columns,         \* the columns of the scanned file (the schema of df_lazy)
    df_lazy,         \* the base table: self.df_lazy
    returns_cache,   \* self._returns_only (NONE or the returns-only view)
    sales_cache,     \* self._sales_only   (NONE or the sales-only view)
    nullsEqual,      \* whether this build's is_in lets null match a null in the list
    lastOp,          \* the last query called
    lastArgs,        \* its arguments
    lastResult,      \* what it returned (<<>> when it raised)
    lastError        \* the exception it raised, "" if none

vars == <<status, loadError, file, columns, df_lazy, returns_cache, sales_cache,
          nullsEqual, lastOp, lastArgs, lastResult, lastError>>

-----------------------------------------------------------------------------
(* Bounds of the model *)

\* rows of a file drawn freely from RowUniverse
MaxRows == 4
\* rows (one per description) of the largest file of distinct descriptions
MaxWide == 17
\* largest limit a caller passes to the top-revenue query
MaxLimit == 2

(* Program constants *)

\* .head(15) of revenue_per_article_per_country
TopN == 15

-----------------------------------------------------------------------------
(* Values *)

\* a cached property: None until its first access, then the view it computed
NONE == [set |-> FALSE, view |-> <<>>]
Cached(view) == [set |-> TRUE, view |-> view]
\* polars null in a text column; the empty CSV cell
NULL == ""
\* null Date / DateTime
NoDate == <<>>

Num(n) == [parses |-> TRUE, val |-> n]
\* a numeric cell whose text is not a number: ignore_errors=True reads it as null
BadNum == [parses |-> FALSE, val |-> 0]

AllColumns == {"InvoiceNo", "StockCode", "Description", "Quantity",
               "InvoiceDate", "UnitPrice", "CustomerID", "Country"}

\* lexicographic order of the strings the model uses (Python / polars string sort)
CountryOrder == <<"France", "Germany", "Spain">>
DescriptionOrder == <<"GADGET", "P03", "P04", "P05", "P06", "P07", "P08", "P09",
                      "P10", "P11", "P12", "P13", "P14", "P15", "P16", "P17",
                      "P18", "P19", "P20", "WIDGET">>
\* the descriptions of the rows of a wide file, row by row
WideDescriptions == <<"WIDGET", "GADGET", "P03", "P04", "P05", "P06", "P07", "P08",
                      "P09", "P10", "P11", "P12", "P13", "P14", "P15", "P16",
                      "P17", "P18", "P19", "P20">>

RankIn(order, s) == CHOOSE i \in 1..Len(order) : order[i] = s

\* A timestamp is the sequence of its tokens: runs of digits and the separators.
TsUS1     == <<"12", "/", "1", "/", "2010", " ", "8", ":", "26">>
TsISO1    == <<"2010", "-", "12", "-", "1", " ", "9", ":", "0", ":", "0">>
TsISO2    == <<"2010", "-", "12", "-", "2", " ", "8", ":", "26", ":", "0">>
TsJunk    == <<"not-a-date">>
TsMonth13 == <<"13", "/", "1", "/", "2010", " ", "8", ":", "26">>

\* the decimal numerals 1..31, and the value of a run of digits
Numerals == <<"1", "2", "3", "4", "5", "6", "7", "8", "9", "10", "11", "12", "13",
              "14", "15", "16", "17", "18", "19", "20", "21", "22", "23", "24",
              "25", "26", "27", "28", "29", "30", "31">>
IsDigits(tok) == tok \in {"0", "2010"} \/ \E i \in 1..Len(Numerals) : Numerals[i] = tok
IntOf(tok) ==
    IF tok = "0" THEN 0
    ELSE IF tok = "2010" THEN 2010
    ELSE CHOOSE i \in 1..Len(Numerals) : Numerals[i] = tok

CsvRow(inv, stock, desc, qty, ts, price, cust, country) ==
    [InvoiceNo |-> inv, StockCode |-> stock, Description |-> desc, Quantity |-> qty,
     InvoiceDate |-> ts, UnitPrice |-> price, CustomerID |-> cust, Country |-> country]

Inv1001  == <<"1", "0", "0", "1">>
InvC1001 == <<"C", "1", "0", "0", "1">>
Inv1002  == <<"1", "0", "0", "2">>
Inv1003  == <<"1", "0", "0", "3">>

\* the rows the small files are made of
RowUniverse ==
    << CsvRow(Inv1001,  "S1", "WIDGET", Num(3),  TsUS1,     Num(2), "A",  "France"),
       CsvRow(Inv1001,  "S2", "WIDGET", Num(2),  TsISO2,    Num(2), "A",  "France"),
       CsvRow(InvC1001, "S1", "WIDGET", Num(-3), TsISO2,    Num(2), "A",  "France"),
       CsvRow(Inv1002,  "S3", "GADGET", Num(3),  TsJunk,    Num(2), "B",  "France"),
       CsvRow(Inv1003,  "S1", "WIDGET", Num(1),  TsUS1,     Num(2), "B",  "Germany"),
       CsvRow(Inv1003,  "S1", "WIDGET", Num(5),  TsISO1,    Num(2), "B",  "Germany"),
       CsvRow(Inv1003,  "S3", "GADGET", Num(2),  TsMonth13, Num(2), "B",  "Germany"),
       CsvRow(Inv1002,  "S2", "WIDGET", BadNum,  TsUS1,     Num(2), "A",  "France"),
       CsvRow(Inv1002,  "S2", "WIDGET", Num(4),  TsISO1,    Num(2), NULL, "France") >>

\* the files of at most n rows of RowUniverse, as index sequences; the rows
\* are taken in the order of RowUniverse (no query reads the order of the rows)
RECURSIVE Picks(_)
Picks(n) ==
    IF n = 0 THEN {<<>>}
    ELSE LET shorter == Picks(n - 1)
         IN  shorter \cup
             { Append(p[1], p[2]) :
               p \in { q \in shorter \X (1..Len(RowUniverse)) :
                         q[1] = <<>> \/ q[1][Len(q[1])] <= q[2] } }

RowsOf(pick) == [i \in 1..Len(pick) |-> RowUniverse[pick[i]]]

\* row i of a wide file: one sale per description, in France
WideRow(i, flat) ==
    CsvRow(Inv1002, "S1", WideDescriptions[i], Num(IF flat /\ i < 3 THEN 3 ELSE i),
           <<"12", "/", Numerals[i], "/", "2010", " ", "8", ":", "26">>,
           Num(1), "A", "France")

WideRows(n, flat) == [i \in 1..n |-> WideRow(i, flat)]

CsvFile(exists, cols, rows) == [exists |-> exists, columns |-> cols, rows |-> rows]

\* the rows of the files that lack a column
ScenarioRows == RowsOf(<<1, 5>>)

\* the rows of a file that has no column c: the cell is not there
BlankCell(c) ==
    CASE c \in {"Quantity", "UnitPrice"} -> BadNum
      [] c \in {"InvoiceNo", "InvoiceDate"} -> <<>>
      [] OTHER -> NULL

WithoutColumn(rows, c) == [i \in 1..Len(rows) |-> [rows[i] EXCEPT ![c] = BlankCell(c)]]

Files ==
    {CsvFile(FALSE, {}, <<>>)}
    \cup {CsvFile(TRUE, AllColumns \ {c}, WithoutColumn(ScenarioRows, c)) : c \in AllColumns}
    \cup {CsvFile(TRUE, AllColumns, RowsOf(pick)) : pick \in Picks(MaxRows)}
    \cup {CsvFile(TRUE, AllColumns, WideRows(n, flat)) :
              n \in (TopN - 1)..MaxWide, flat \in BOOLEAN}

-----------------------------------------------------------------------------
(* _read_csv: date parsing *)

Format1 == <<"%m", "/", "%d", "/", "%Y", " ", "%H", ":", "%M">>
Format2 == <<"%Y", "-", "%m", "-", "%d", " ", "%H", ":", "%M", ":", "%S">>
\* for fmt in (...): the formats in the order they are tried
Formats == <<Format1, Format2>>

IsDirective(f) == f \in {"%m", "%d", "%Y", "%H", "%M", "%S"}

\* the values a directive of strptime accepts
DirectiveOk(f, n) ==
    CASE f = "%m" -> n \in 1..12
      [] f = "%d" -> n \in 1..31
      [] f = "%Y" -> n \in 1..9999
      [] f = "%H" -> n \in 0..23
      [] f = "%M" -> n \in 0..59
      [] f = "%S" -> n \in 0..61

DaysIn(y, m) ==
    IF m \in {4, 6, 9, 11} THEN 30
    ELSE IF m # 2 THEN 31
    ELSE IF (y % 4 = 0 /\ y % 100 # 0) \/ y % 400 = 0 THEN 29 ELSE 28

FieldOf(val, fmt, f) == IntOf(val[CHOOSE i \in 1..Len(fmt) : fmt[i] = f])

\* datetime.strptime(val, fmt) succeeds
StrptimeOk(val, fmt) ==
    /\ Len(val) = Len(fmt)
    /\ \A i \in 1..Len(fmt) :
          IF IsDirective(fmt[i])
          THEN IsDigits(val[i]) /\ DirectiveOk(fmt[i], IntOf(val[i]))
          ELSE val[i] = fmt[i]
    /\ FieldOf(val, fmt, "%d") <= DaysIn(FieldOf(val, fmt, "%Y"), FieldOf(val, fmt, "%m"))

\* d.date() of the datetime strptime returns: <<year, month, day>>
StrptimeDate(val, fmt) ==
    <<FieldOf(val, fmt, "%Y"), FieldOf(val, fmt, "%m"), FieldOf(val, fmt, "%d")>>

\* the loop over the formats: the first that parses wins, else None
RECURSIVE ParseFrom(_, _)
ParseFrom(val, k) ==
    IF k > Len(Formats) THEN NoDate
    ELSE IF StrptimeOk(val, Formats[k]) THEN StrptimeDate(val, Formats[k])
    ELSE ParseFrom(val, k + 1)

ParseDate(val) == ParseFrom(val, 1)

-----------------------------------------------------------------------------
(* _read_csv: scan, drop_nulls, join with the dates, Revenue *)

\* a cell as scan_csv reads it: null for an empty cell or, under
\* ignore_errors=True, for a numeric cell that does not parse
IsNullCell(row, c) ==
    CASE c \in {"Quantity", "UnitPrice"} -> ~row[c].parses
      [] c \in {"InvoiceNo", "InvoiceDate"} -> row[c] = <<>>
      [] OTHER -> row[c] = NULL

\* .drop_nulls(): a row with a null in any column of the file is dropped
DropNulls(rows, cols) == SelectSeq(rows, LAMBDA r : \A c \in cols : ~IsNullCell(r, c))

\* dates_df: one row per row of the scan, keyed by its InvoiceDate string
DatesDf(scan) == [i \in 1..Len(scan) |->
                     [InvoiceDate |-> scan[i].InvoiceDate,
                      Date |-> ParseDate(scan[i].InvoiceDate)]]

\* one row of the base table: the scanned row, the date columns of the
\* dates_df row it joined, and Revenue = Quantity * UnitPrice
BaseRow(r, d) ==
    [InvoiceNo |-> r.InvoiceNo, StockCode |-> r.StockCode,
     Description |-> r.Description, Quantity |-> r.Quantity.val,
     InvoiceDate |-> r.InvoiceDate, UnitPrice |-> r.UnitPrice.val,
     CustomerID |-> r.CustomerID, Country |-> r.Country,
     Date |-> d.Date, Revenue |-> r.Quantity.val * r.UnitPrice.val]

\* the rows a left row yields in a left join on InvoiceDate: one per right row
\* with the same key (every left key is in dates_df, so at least one)
JoinMatches(r, right) ==
    LET hits == SelectSeq(right, LAMBDA d : d.InvoiceDate = r.InvoiceDate)
    IN  [k \in 1..Len(hits) |-> BaseRow(r, hits[k])]

RECURSIVE LeftJoin(_, _)
LeftJoin(left, right) ==
    IF left = <<>> THEN <<>>
    ELSE JoinMatches(Head(left), right) \o LeftJoin(Tail(left), right)

ReadCsv(f) ==
    LET df_scan == DropNulls(f.rows, f.columns)
    IN  LeftJoin(df_scan, DatesDf(df_scan))

\* the constructor collects select("InvoiceDate"): it raises when the file is
\* missing and when that column is; the other columns are first looked up
\* when a query collects
LoadFailure(f) ==
    IF ~f.exists THEN "FileNotFoundError"
    ELSE IF "InvoiceDate" \notin f.columns THEN "ColumnNotFoundError"
    ELSE ""

-----------------------------------------------------------------------------
(* The derived views *)

\* pl.col("InvoiceNo").str.starts_with("C")
StartsWithC(inv) == Len(inv) > 0 /\ inv[1] = "C"

\* StripC without the replace: the return keeps its marker
StripC_Unstripped(inv) == inv

\* pl.col("InvoiceNo").str.replace("^C", "")
StripC(inv) == IF StartsWithC(inv) THEN Tail(inv) ELSE inv

ReturnKey(r) ==
    [OriginalInvoiceNo |-> StripC(r.InvoiceNo), StockCode |-> r.StockCode,
     CustomerID |-> r.CustomerID]

\* returns_only: the return rows, as (OriginalInvoiceNo, StockCode, CustomerID)
ReturnsOnly(df) ==
    LET rets == SelectSeq(df, LAMBDA r : StartsWithC(r.InvoiceNo))
    IN  [i \in 1..Len(rets) |-> ReturnKey(rets[i])]

\* the anti-join's match of a left row with a row of returns_only
JoinKeyMatch(r, k) ==
    /\ r.InvoiceNo = k.OriginalInvoiceNo
    /\ r.StockCode = k.StockCode
    /\ r.CustomerID = k.CustomerID

\* sales_only: the non-return rows no row of returns_only matches
SalesOnly(df, returns) ==
    SelectSeq(df, LAMBDA r :
        /\ ~StartsWithC(r.InvoiceNo)
        /\ \A i \in 1..Len(returns) : ~JoinKeyMatch(r, returns[i]))

\* the getters: the first access computes the view, later ones return the cache
GetReturns == IF ~returns_cache.set THEN ReturnsOnly(df_lazy) ELSE returns_cache.view
GetSales == IF ~sales_cache.set THEN SalesOnly(df_lazy, GetReturns) ELSE sales_cache.view

\* an access to self.sales_only: it fills both caches
TouchSales ==
    /\ sales_cache' = Cached(GetSales)
    /\ returns_cache' = IF ~sales_cache.set THEN Cached(GetReturns) ELSE returns_cache

-----------------------------------------------------------------------------
(* Helpers of the queries *)

RECURSIVE SumRevenue(_)
SumRevenue(rows) ==
    IF rows = <<>> THEN 0 ELSE Head(rows).Revenue + SumRevenue(Tail(rows))

RECURSIVE SumQuantity(_)
SumQuantity(rows) ==
    IF rows = <<>> THEN 0 ELSE Head(rows).Quantity + SumQuantity(Tail(rows))

InCountry(rows, country) == SelectSeq(rows, LAMBDA r : r.Country = country)

\* .sort(<a text column>) of distinct values: ascending in the given order
RECURSIVE SortByRank(_, _)
SortByRank(S, order) ==
    IF S = {} THEN <<>>
    ELSE LET least == CHOOSE x \in S : \A y \in S : RankIn(order, x) <= RankIn(order, y)
         IN  <<least>> \o SortByRank(S \ {least}, order)

\* order of the Date column under .sort("Date"): null first, then by calendar
DateBefore(a, b) ==
    IF a = NoDate THEN b # NoDate
    ELSE IF b = NoDate THEN FALSE
    ELSE \/ a[1] < b[1]
         \/ a[1] = b[1] /\ a[2] < b[2]
         \/ a[1] = b[1] /\ a[2] = b[2] /\ a[3] < b[3]

\* .group_by("Date").agg(Quantity.sum()).sort("Date")
RECURSIVE QuantityGroups(_, _)
QuantityGroups(rows, dates) ==
    IF dates = {} THEN <<>>
    ELSE LET first == CHOOSE d \in dates : \A e \in dates \ {d} : DateBefore(d, e)
         IN  <<[Date |-> first,
                Quantity |-> SumQuantity(SelectSeq(rows, LAMBDA r : r.Date = first))]>>
             \o QuantityGroups(rows, dates \ {first})

QuantityByDateOf(rows) == QuantityGroups(rows, {rows[i].Date : i \in 1..Len(rows)})

\* .group_by("Description").agg(Revenue.sum()): the groups, in no order
RevenueGroups(rows) ==
    { [Description |-> d,
       Revenue |-> SumRevenue(SelectSeq(rows, LAMBDA r : r.Description = d))] :
      d \in {rows[i].Description : i \in 1..Len(rows)} }

\* .sort("Revenue", descending=True).head(n): group_by yields its groups in an
\* order that differs from run to run and the sort says nothing about equal
\* keys, so every non-increasing order of the groups is a possible frame
RECURSIVE SortedHeads(_, _)
SortedHeads(groups, n) ==
    IF groups = {} \/ n = 0 THEN {<<>>}
    ELSE LET top == {g \in groups : \A h \in groups : h.Revenue <= g.Revenue}
         IN  UNION { { <<g>> \o rest : rest \in SortedHeads(groups \ {g}, n - 1) } :
                     g \in top }

\* f"{x:.2f}" of x = num / den * 100, as the hundredths it prints (nearest, ties to even)
Percent2(num, den) ==
    LET sgn == IF (num < 0) # (den < 0) THEN -1 ELSE 1
        n == (IF num < 0 THEN -num ELSE num) * 10000
        d == IF den < 0 THEN -den ELSE den
        q == n \div d
        r == n % d
        up == 2 * r > d \/ (2 * r = d /\ q % 2 = 1)
    IN  sgn * (IF up THEN q + 1 ELSE q)

-----------------------------------------------------------------------------
(* The queries *)

\* the columns every collect of df_lazy resolves: the join key and Revenue's inputs
BaseNeeds == {"InvoiceDate", "Quantity", "UnitPrice"}
\* the columns a collect of sales_only resolves
SalesNeeds == BaseNeeds \cup {"InvoiceNo", "StockCode", "CustomerID"}

CountryArgs == {"France", "Germany", "Spain"}
ProductArgs == {"WIDGET", "GADGET"}

Returned(op, args, result) ==
    /\ lastOp' = op
    /\ lastArgs' = args
    /\ lastResult' = result
    /\ lastError' = ""

Raised(op, args, error) ==
    /\ lastOp' = op
    /\ lastArgs' = args
    /\ lastResult' = <<>>
    /\ lastError' = error

Fixed == UNCHANGED <<status, loadError, file, columns, df_lazy, nullsEqual>>

UniqueCountries(df) == SortByRank({df[i].Country : i \in 1..Len(df)}, CountryOrder)

\* unique_countries
ListCountries ==
    /\ status = "ready"
    /\ IF BaseNeeds \cup {"Country"} \subseteq columns
       THEN Returned("unique_countries", <<>>, UniqueCountries(df_lazy))
       ELSE Raised("unique_countries", <<>>, "ColumnNotFoundError")
    /\ Fixed
    /\ UNCHANGED <<returns_cache, sales_cache>>

UniqueProducts(sales, country) ==
    LET rows == InCountry(sales, country)
    IN  SortByRank({rows[i].Description : i \in 1..Len(rows)}, DescriptionOrder)

\* unique_products(country)
ListProducts ==
    /\ status = "ready"
    /\ TouchSales
    /\ \E country \in CountryArgs :
          IF SalesNeeds \cup {"Country", "Description"} \subseteq columns
          THEN Returned("unique_products", <<country>>, UniqueProducts(GetSales, country))
          ELSE Raised("unique_products", <<country>>, "ColumnNotFoundError")
    /\ Fixed

\* TopRevenue with the head one row too long
TopRevenue_OffByOne(sales, country) ==
    SortedHeads(RevenueGroups(InCountry(sales, country)), TopN + 1)

\* the frames revenue_per_article_per_country(country) can return
TopRevenue(sales, country) == SortedHeads(RevenueGroups(InCountry(sales, country)), TopN)

\* revenue_per_article_per_country(country)
TopRevenueByArticle ==
    /\ status = "ready"
    /\ TouchSales
    /\ \E country \in CountryArgs :
          IF SalesNeeds \cup {"Country", "Description"} \subseteq columns
          THEN \E frame \in TopRevenue(GetSales, country) :
                  Returned("revenue_per_article_per_country", <<country>>, frame)
          ELSE Raised("revenue_per_article_per_country", <<country>>,
                      "ColumnNotFoundError")
    /\ Fixed

\* revenue_per_article_per_country(country, limit=n): the method takes the
\* country alone, so the call raises before its body runs
TopRevenueByArticleLimit ==
    /\ status = "ready"
    /\ \E country \in CountryArgs, limit \in 1..MaxLimit :
          Raised("revenue_per_article_per_country", <<country, "limit", limit>>,
                 "TypeError")
    /\ Fixed
    /\ UNCHANGED <<returns_cache, sales_cache>>

\* TotalRevenue over the non-return rows only
TotalRevenue_SalesOnly(df) == SumRevenue(SelectSeq(df, LAMBDA r : ~StartsWithC(r.InvoiceNo)))

TotalRevenue(df) == SumRevenue(df)
CountryRevenue(df, country) == SumRevenue(InCountry(df, country))

\* the exception of country_revenue / total_revenue * 100, "" if none
ShareFailure(df) == IF TotalRevenue(df) = 0 THEN "ZeroDivisionError" ELSE ""

ShareFrame(df, country) ==
    [total |-> TotalRevenue(df), country |-> CountryRevenue(df, country),
     perc |-> Percent2(CountryRevenue(df, country), TotalRevenue(df))]

\* total_revenue_vs_country(country)
RevenueShare ==
    /\ status = "ready"
    /\ \E country \in CountryArgs :
          IF ~(BaseNeeds \cup {"Country"} \subseteq columns)
          THEN Raised("total_revenue_vs_country", <<country>>, "ColumnNotFoundError")
          ELSE IF ShareFailure(df_lazy) # ""
          THEN Raised("total_revenue_vs_country", <<country>>, ShareFailure(df_lazy))
          ELSE Returned("total_revenue_vs_country", <<country>>,
                        ShareFrame(df_lazy, country))
    /\ Fixed
    /\ UNCHANGED <<returns_cache, sales_cache>>

CountryQuantity(sales, country, product) ==
    QuantityByDateOf(SelectSeq(sales, LAMBDA r :
        r.Country = country /\ r.Description = product))

\* get_country_quantity(country, product)
QuantityByDate ==
    /\ status = "ready"
    /\ TouchSales
    /\ \E country \in CountryArgs, product \in ProductArgs :
          IF SalesNeeds \cup {"Country", "Description"} \subseteq columns
          THEN Returned("get_country_quantity", <<country, product>>,
                        CountryQuantity(GetSales, country, product))
          ELSE Raised("get_country_quantity", <<country, product>>,
                      "ColumnNotFoundError")
    /\ Fixed

\* pl.col("Date").is_in(country_dates): a null Date matches a null of the list
\* only in a build whose is_in compares nulls as equal
DateIsIn(d, dates, nullsEq) ==
    IF d = NoDate THEN nullsEq /\ \E i \in 1..Len(dates) : dates[i] = NoDate
    ELSE \E i \in 1..Len(dates) : dates[i] = d

\* GlobalRows without the is_in(country_dates) filter
GlobalRows_AnyDate(sales, country, product, nullsEq) ==
    SelectSeq(sales, LAMBDA r : r.Country # country /\ r.Description = product)

\* the rows get_global_quantity groups
GlobalRows(sales, country, product, nullsEq) ==
    LET country_df == CountryQuantity(sales, country, product)
        country_dates == [i \in 1..Len(country_df) |-> country_df[i].Date]
    IN  SelectSeq(sales, LAMBDA r :
            /\ r.Country # country
            /\ r.Description = product
            /\ DateIsIn(r.Date, country_dates, nullsEq))

GlobalQuantity(sales, country, product, nullsEq) ==
    QuantityByDateOf(GlobalRows(sales, country, product, nullsEq))

\* get_global_quantity(country, product)
GlobalQuantityByDate ==
    /\ status = "ready"
    /\ TouchSales
    /\ \E country \in CountryArgs, product \in ProductArgs :
          IF SalesNeeds \cup {"Country", "Description"} \subseteq columns
          THEN Returned("get_global_quantity", <<country, product>>,
                        GlobalQuantity(GetSales, country, product, nullsEqual))
          ELSE Raised("get_global_quantity", <<country, product>>,
                      "ColumnNotFoundError")
    /\ Fixed

-----------------------------------------------------------------------------
Init ==
    /\ status = "new"
    /\ loadError = ""
    /\ file = CsvFile(FALSE, {}, <<>>)
    /\ columns = {}
    /\ df_lazy = <<>>
    /\ returns_cache = NONE
    /\ sales_cache = NONE
    /\ nullsEqual \in BOOLEAN
    /\ lastOp = "none"
    /\ lastArgs = <<>>
    /\ lastResult = <<>>
    /\ lastError = ""

\* DataProcessor(filename)
Load ==
    /\ status = "new"
    /\ \E f \in Files :
          /\ file' = f
          /\ loadError' = LoadFailure(f)
          /\ IF LoadFailure(f) # ""
             THEN /\ status' = "failed"
                  /\ UNCHANGED <<columns, df_lazy>>
             ELSE /\ status' = "ready"
                  /\ columns' = f.columns
                  /\ df_lazy' = ReadCsv(f)
    /\ UNCHANGED <<returns_cache, sales_cache, nullsEqual,
                   lastOp, lastArgs, lastResult, lastError>>

Next ==
    \/ Load
    \/ ListCountries
    \/ ListProducts
    \/ TopRevenueByArticle
    \/ TopRevenueByArticleLimit
    \/ RevenueShare
    \/ QuantityByDate
    \/ GlobalQuantityByDate

Spec == Init /\ [][Next]_vars

-----------------------------------------------------------------------------
(* What the properties are stated with *)

Indices(seq) == 1..Len(seq)
IsReturnRow(r) == r.InvoiceNo # <<>> /\ r.InvoiceNo[1] = "C"
SameTriple(s, r) ==
    /\ s.InvoiceNo = Tail(r.InvoiceNo)
    /\ s.StockCode = r.StockCode
    /\ s.CustomerID = r.CustomerID

\* sum of f over a set of indices
RECURSIVE SumAt(_, _)
SumAt(f, I) ==
    IF I = {} THEN 0
    ELSE LET i == CHOOSE j \in I : TRUE IN f[i] + SumAt(f, I \ {i})

Answered(op) == status = "ready" /\ lastOp = op /\ lastError = ""

\* the input rows that survive the null / malformed-field filter
Surviving == SelectSeq(file.rows, LAMBDA r : \A c \in AllColumns : ~IsNullCell(r, c))
InputRevenue == [i \in Indices(Surviving) |->
                    Surviving[i].Quantity.val * Surviving[i].UnitPrice.val]
\* the surviving non-return input rows that no surviving return row matches
UnmatchedSales ==
    { i \in Indices(Surviving) :
        /\ ~IsReturnRow(Surviving[i])
        /\ \A j \in Indices(Surviving) :
              IsReturnRow(Surviving[j]) => ~SameTriple(Surviving[i], Surviving[j]) }
UnmatchedOf(country, desc) ==
    { i \in UnmatchedSales :
        Surviving[i].Country = country /\ Surviving[i].Description = desc }

-----------------------------------------------------------------------------
(* C1 *)

\* C1: once the views are built, the returns-only view holds exactly the
\* (InvoiceNo without its leading "C", StockCode, CustomerID) triples of the
\* base rows whose InvoiceNo starts with "C", no row of the sales-only view
\* starts its InvoiceNo with "C", and no row of the sales-only view has the
\* triple of a return row.
C1_AntiJoin ==
    sales_cache.set =>
        /\ returns_cache.set
        /\ { returns_cache.view[i] : i \in Indices(returns_cache.view) }
             = { [OriginalInvoiceNo |-> Tail(df_lazy[i].InvoiceNo),
                  StockCode |-> df_lazy[i].StockCode,
                  CustomerID |-> df_lazy[i].CustomerID] :
                 i \in { j \in Indices(df_lazy) : IsReturnRow(df_lazy[j]) } }
        /\ \A i \in Indices(sales_cache.view) :
              /\ ~IsReturnRow(sales_cache.view[i])
              /\ \A j \in Indices(df_lazy) :
                    IsReturnRow(df_lazy[j]) => ~SameTriple(sales_cache.view[i], df_lazy[j])

\* C1 witness: the views are built, a non-return base row was removed by a
\* matching return, and another non-return row stayed.
C1_Witness ==
    /\ sales_cache.set
    /\ sales_cache.view # <<>>
    /\ \E i, j \in Indices(df_lazy) :
          /\ ~IsReturnRow(df_lazy[i])
          /\ IsReturnRow(df_lazy[j])
          /\ SameTriple(df_lazy[i], df_lazy[j])

(* C2 *)

\* C2: TopRevenueByArticle(country) holds a row for exactly the descriptions
\* of the non-return input rows of that country that no return matches, and
\* the Revenue of a description is the sum of Quantity * UnitPrice of those
\* rows, each counted once (stated for answers that head(15) does not cut).
C2_SetDifferenceOnce ==
    (Answered("revenue_per_article_per_country") /\ Len(lastResult) < TopN) =>
        LET country == lastArgs[1] IN
        /\ { lastResult[k].Description : k \in Indices(lastResult) }
             = { Surviving[i].Description :
                 i \in { j \in UnmatchedSales : Surviving[j].Country = country } }
        /\ \A k \in Indices(lastResult) :
              lastResult[k].Revenue
                = SumAt(InputRevenue, UnmatchedOf(country, lastResult[k].Description))

(* C3 *)

\* C3: no row of a QuantityByDate answer has a null Date.
C3_NoNullDateGroup ==
    Answered("get_country_quantity") =>
        \A k \in Indices(lastResult) : lastResult[k].Date # NoDate

(* C4 *)

\* C4: every date of a GlobalQuantityByDate(country, product) answer is the
\* date of a sales-only row of that country and product (a date of
\* QuantityByDate), and its quantity is the sum of Quantity over the
\* sales-only rows of that product and date whose Country is another one.
C4_GlobalDatesSubset ==
    Answered("get_global_quantity") =>
        LET country == lastArgs[1]
            product == lastArgs[2]
            sales == sales_cache.view
            qty == [i \in Indices(sales) |-> sales[i].Quantity]
        IN  \A k \in Indices(lastResult) :
              /\ \E i \in Indices(sales) :
                    /\ sales[i].Country = country
                    /\ sales[i].Description = product
                    /\ sales[i].Date = lastResult[k].Date
              /\ \E i \in Indices(sales) :
                    /\ sales[i].Country # country
                    /\ sales[i].Description = product
                    /\ sales[i].Date = lastResult[k].Date
              /\ lastResult[k].Quantity
                   = SumAt(qty, { i \in Indices(sales) :
                                    /\ sales[i].Country # country
                                    /\ sales[i].Description = product
                                    /\ sales[i].Date = lastResult[k].Date })

\* C4 witness: a global answer with a row, while a sale of the product in
\* another country falls on a date the focal country has no sale on.
C4_Witness ==
    /\ Answered("get_global_quantity")
    /\ lastResult # <<>>
    /\ \E i \in Indices(sales_cache.view) :
          /\ sales_cache.view[i].Country # lastArgs[1]
          /\ sales_cache.view[i].Description = lastArgs[2]
          /\ \A j \in Indices(sales_cache.view) :
                (sales_cache.view[j].Country = lastArgs[1]
                   /\ sales_cache.view[j].Description = lastArgs[2])
                => sales_cache.view[j].Date # sales_cache.view[i].Date

(* C5 *)

\* C5: RevenueShare on a base table whose total revenue is zero ends in
\* EmptyDatasetError.
C5_EmptyDatasetError ==
    (status = "ready" /\ lastOp = "total_revenue_vs_country"
       /\ columns = AllColumns
       /\ SumAt([i \in Indices(df_lazy) |-> df_lazy[i].Revenue], Indices(df_lazy)) = 0)
    => lastError = "EmptyDatasetError"

(* C6 *)

C7_RevenueShare ==
    Answered("total_revenue_vs_country") =>
        LET rev == [i \in Indices(df_lazy) |-> df_lazy[i].Quantity * df_lazy[i].UnitPrice]
            total == SumAt(rev, Indices(df_lazy))
            own == SumAt(rev, { i \in Indices(df_lazy) : df_lazy[i].Country = lastArgs[1] })
            off == lastResult.perc * total - own * 10000
        IN  /\ lastResult.total = total
            /\ lastResult.country = own
            /\ 2 * (IF off < 0 THEN -off ELSE off) <= (IF total < 0 THEN -total ELSE total)
            /\ (0 <= own /\ own <= total) =>
                  (0 <= lastResult.perc /\ lastResult.perc <= 10000)

\* C7 witness: an answer with 0 < country revenue < total over a base table
\* that holds a return row.
C7_Witness ==
    /\ Answered("total_revenue_vs_country")
    /\ 0 < lastResult.country
    /\ lastResult.country < lastResult.total
    /\ 0 < lastResult.perc /\ lastResult.perc < 10000
    /\ \E i \in Indices(df_lazy) : IsReturnRow(df_lazy[i])

(* C8 *)

\* C8: a file that is missing, or that lacks one of the eight columns, makes
\* the constructor fail: no store is returned.
C8_LoadFailsAtStartup ==
    (status # "new" /\ (~file.exists \/ file.columns # AllColumns)) => status = "failed"

(* C9 *)

\* C9: a query that answered, called again with the same arguments, returns
\* the identical result.
C9_Deterministic ==
    [][(/\ status = "ready"
        /\ lastOp # "none"
        /\ lastOp' = lastOp
        /\ lastArgs' = lastArgs
        /\ lastError = "") => lastResult' = lastResult]_vars

(* C10 *)

\* C10: the base table holds one row for each input row that survives the
\* null / malformed-field filter, and its Revenue sums to the sum of
\* Quantity * UnitPrice over those rows.
C10_RowMultiplicity ==
    (status = "ready" /\ columns = AllColumns) =>
        /\ Len(df_lazy) = Len(Surviving)
        /\ SumAt([i \in Indices(df_lazy) |-> df_lazy[i].Revenue], Indices(df_lazy))
             = SumAt(InputRevenue, Indices(Surviving))

====
